---- MODULE Spec2Model ----
(***************************************************************************)
(* The plugin ABI of EugenBA/module4-plugin: the exported process_image of *)
(* the mirror plugin and of the blur plugin, called by a host on a raw     *)
(* RGBA buffer it owns, with a JSON configuration string.                  *)
(*                                                                         *)
(* The host's buffer is a function 0..n-1 -> 0..255 (0-based, as the code  *)
(* indexes it).  Machine integers are ranges: a checked operation yields   *)
(* None outside the range, an unchecked one panics (overflow checks on, a  *)
(* debug build) or wraps (overflow checks off, a release build).  The      *)
(* ranges are scaled (I32_MAX, USIZE_MAX below) so that the loops that run *)
(* up to an overflow are finite for the model checker.                     *)
(***************************************************************************)
EXTENDS Integers, Sequences, FiniteSets, TLC

VARIABLES
    image,            \* the host's pixel buffer: [width, height, data]
    overflow_checks,  \* the build: TRUE = arithmetic overflow panics, FALSE = wraps
    max_level,        \* log::max_level(), process-wide
    calls,            \* number of process_image calls made so far
    orig,             \* the buffer's bytes before the first call
    trail,            \* one summary per call made, oldest first
    last,             \* the most recent call: arguments and what it did
    main              \* the host's main: where it is, the plugin file, the result

vars == <<image, overflow_checks, max_level, calls, orig, trail, last, main>>

----------------------------------------------------------------------------
(* Bounds of the model *)

MaxW == 3
MaxH == 3
MaxCalls == 2
\* i32::MAX and usize::MAX, scaled
I32_MAX == 127
USIZE_MAX == 255

I32_MIN == -I32_MAX - 1

(* Program constants *)

BYTE_PER_PIXEL == 4

\* log::LevelFilter, as its discriminant
LevelOff == 0
LevelError == 1
LevelWarn == 2
LevelInfo == 3
LevelDebug == 4
LevelTrace == 5

----------------------------------------------------------------------------
(* Machine arithmetic *)

None == [some |-> FALSE, v |-> 0]
Some(x) == [some |-> TRUE, v |-> x]

InI32(x) == I32_MIN <= x /\ x <= I32_MAX
InUsize(x) == 0 <= x /\ x <= USIZE_MAX

\* two's complement wrap of an exact result
WrapI32(x) == ((x - I32_MIN) % (2 * (I32_MAX + 1))) + I32_MIN
WrapUsize(x) == x % (USIZE_MAX + 1)

\* i32::checked_mul
checked_mul_i32(a, b) == IF InI32(a * b) THEN Some(a * b) ELSE None

\* Rust's / on integers truncates toward zero
TruncDiv(a, b) ==
    IF (a >= 0) = (b > 0) THEN (IF a >= 0 THEN a ELSE -a) \div (IF b > 0 THEN b ELSE -b)
    ELSE -((IF a >= 0 THEN a ELSE -a) \div (IF b > 0 THEN b ELSE -b))

\* i32::checked_div: None for a zero divisor and for MIN / -1
checked_div_i32(a, b) ==
    IF b = 0 \/ ~InI32(TruncDiv(a, b)) THEN None ELSE Some(TruncDiv(a, b))

\* usize::checked_mul
checked_mul_usize(a, b) == IF InUsize(a * b) THEN Some(a * b) ELSE None

\* TryFrom<usize> for i32 and TryFrom<u32> for usize
try_into_i32(x) == IF InI32(x) THEN Some(x) ELSE None
try_into_usize(x) == IF InUsize(x) THEN Some(x) ELSE None

----------------------------------------------------------------------------
(* Logging *)

\* plugins_support::logger::get_log_level
get_log_level(config_str) ==
    CASE config_str = "error" -> LevelError
      [] config_str = "warn" -> LevelWarn
      [] config_str = "info" -> LevelInfo
      [] config_str = "debug" -> LevelDebug
      [] config_str = "trace" -> LevelTrace
      [] OTHER -> LevelError

\* log::error!, log::warn!, log::info!: a record reaches the log when its
\* level is within the current maximum
Emit(log, max, level, msg) == IF level <= max THEN Append(log, msg) ELSE log

\* what setup_logger can return to a plugin
LoggerResults == {"Ok", "LoggerInitError", "Error"}

----------------------------------------------------------------------------
(* The configuration string *)

\* a JSON value: t is its type, n its number or boolean (0/1), s its string
JAbsent == [t |-> "absent", n |-> 0, s |-> ""]
JNull == [t |-> "null", n |-> 0, s |-> ""]
JInt(x) == [t |-> "int", n |-> x, s |-> ""]
JFloat == [t |-> "float", n |-> 0, s |-> ""]
JBool(b) == [t |-> "bool", n |-> IF b THEN 1 ELSE 0, s |-> ""]
JStr(x) == [t |-> "str", n |-> 0, s |-> x]

\* a JSON object by its members (JAbsent: no such key)
Doc(r, st, v, h, l) ==
    [radius |-> r, step |-> st, vertical_flip |-> v, horizontal_flip |-> h,
     log_level |-> l]
NoDoc == Doc(JAbsent, JAbsent, JAbsent, JAbsent, JAbsent)

\* the params pointer: NULL, bytes that are not UTF-8, text that is not
\* JSON, or the text of a JSON object
ParamsNull == [kind |-> "null", doc |-> NoDoc]
ParamsBadUtf8 == [kind |-> "bad_utf8", doc |-> NoDoc]
ParamsMalformed == [kind |-> "malformed", doc |-> NoDoc]
ParamsObject(d) == [kind |-> "object", doc |-> d]

\* serde: Option<bool>, Option<String>, usize
OptBoolOk(j) == j.t \in {"absent", "null", "bool"}
OptStrOk(j) == j.t \in {"absent", "null", "str"}
UsizeOk(j) == j.t = "int" /\ InUsize(j.n)

\* ConfigReader::<mirror ConfigTransform>::try_from
mirror_config_try_from(params) ==
    IF params.kind = "object"
       /\ OptBoolOk(params.doc.vertical_flip)
       /\ OptBoolOk(params.doc.horizontal_flip)
       /\ OptStrOk(params.doc.log_level)
    THEN [ok |-> TRUE,
          vertical_flip |-> IF params.doc.vertical_flip.t = "bool"
                            THEN Some(params.doc.vertical_flip.n) ELSE None,
          horizontal_flip |-> IF params.doc.horizontal_flip.t = "bool"
                              THEN Some(params.doc.horizontal_flip.n) ELSE None,
          has_level |-> params.doc.log_level.t = "str",
          log_level |-> params.doc.log_level.s]
    ELSE [ok |-> FALSE, vertical_flip |-> None, horizontal_flip |-> None,
          has_level |-> FALSE, log_level |-> ""]

\* ConfigReader::<blur ConfigTransform>::try_from
blur_config_try_from(params) ==
    IF params.kind = "object"
       /\ UsizeOk(params.doc.radius)
       /\ UsizeOk(params.doc.step)
       /\ OptStrOk(params.doc.log_level)
    THEN [ok |-> TRUE, radius |-> params.doc.radius.n, step |-> params.doc.step.n,
          has_level |-> params.doc.log_level.t = "str",
          log_level |-> params.doc.log_level.s]
    ELSE [ok |-> FALSE, radius |-> 0, step |-> 0, has_level |-> FALSE,
          log_level |-> ""]

----------------------------------------------------------------------------
(* What a call carries along: the buffer, the log, the log maximum, the    *)
(* byte indices it has read or written, the byte ranges it has swapped,    *)
(* the indices it has assigned, the errors blur_rgba has returned to it,   *)
(* the error return it has taken (its message, logged or not),             *)
(* and how it stands: "run", "return" (returned to the host), "panic"      *)
(* (a panic, which aborts the process at the extern "C" boundary) or "ub"  *)
(* (a raw access outside the buffer).                                      *)

CallState(data, log, max) ==
    [data |-> data, log |-> log, max |-> max, touched |-> {}, swaps |-> <<>>,
     written |-> {}, errors |-> {}, exit |-> "", status |-> "run"]

Info(st, msg) == [st EXCEPT !.log = Emit(st.log, st.max, LevelInfo, msg)]
\* log::error!(msg); return;
Fail(st, msg) ==
    [st EXCEPT !.log = Emit(st.log, st.max, LevelError, msg), !.exit = msg,
               !.status = "return"]
Return(st) == [st EXCEPT !.status = "return"]
Panic(st) == [st EXCEPT !.status = "panic"]

\* an unchecked +, - or * whose exact result is x
OverflowPanics(ok) == overflow_checks /\ ~ok

\* log::set_max_level(get_log_level(&log_level)) when the config has one
SetLevel(st, has_level, log_level) ==
    IF has_level THEN [st EXCEPT !.max = get_log_level(log_level)] ELSE st

----------------------------------------------------------------------------
(* The mirror plugin *)

\* mutant: the first range is overwritten with the second, which is kept
swap_nonoverlapping_copy(st, a, b, n) ==
    LET len == Cardinality(DOMAIN st.data) IN
    IF a + n > len \/ b + n > len \/ (a < b + n /\ b < a + n)
    THEN [st EXCEPT !.status = "ub"]
    ELSE [st EXCEPT
            !.data = [k \in DOMAIN st.data |->
                        IF a <= k /\ k < a + n THEN st.data[k - a + b]
                        ELSE st.data[k]],
            !.touched = st.touched \cup (a .. a + n - 1) \cup (b .. b + n - 1),
            !.swaps = Append(st.swaps, <<a, b, n>>)]

\* ptr::swap_nonoverlapping(rgba_data.add(a), rgba_data.add(b), n)
swap_nonoverlapping(st, a, b, n) ==
    LET len == Cardinality(DOMAIN st.data) IN
    IF a + n > len \/ b + n > len \/ (a < b + n /\ b < a + n)
    THEN [st EXCEPT !.status = "ub"]
    ELSE [st EXCEPT
            !.data = [k \in DOMAIN st.data |->
                        IF a <= k /\ k < a + n THEN st.data[k - a + b]
                        ELSE IF b <= k /\ k < b + n THEN st.data[k - b + a]
                        ELSE st.data[k]],
            !.touched = st.touched \cup (a .. a + n - 1) \cup (b .. b + n - 1),
            !.swaps = Append(st.swaps, <<a, b, n>>)]

\* mutant: the loop runs over all the rows, not over the upper half
RECURSIVE vertical_flip_rows_all(_, _, _, _)
vertical_flip_rows_all(i, height, row_size, st) ==
    IF i >= height \/ st.status # "run" THEN st
    ELSE LET top_offset == checked_mul_usize(i, row_size)
             bottom_offset == checked_mul_usize(height - 1 - i, row_size)
         IN IF ~top_offset.some THEN Fail(st, "Top offset out of bounds")
            ELSE IF ~bottom_offset.some THEN Fail(st, "Bottom offset out of bounds")
            ELSE vertical_flip_rows_all(i + 1, height, row_size,
                    swap_nonoverlapping(st, top_offset.v, bottom_offset.v, row_size))

\* for i in 0..(height / 2) { ... swap row i with row height - 1 - i }
RECURSIVE vertical_flip_rows(_, _, _, _)
vertical_flip_rows(i, height, row_size, st) ==
    IF i >= height \div 2 \/ st.status # "run" THEN st
    ELSE LET top_offset == checked_mul_usize(i, row_size)
             bottom_offset == checked_mul_usize(height - 1 - i, row_size)
         IN IF ~top_offset.some THEN Fail(st, "Top offset out of bounds")
            ELSE IF ~bottom_offset.some THEN Fail(st, "Bottom offset out of bounds")
            ELSE vertical_flip_rows(i + 1, height, row_size,
                    swap_nonoverlapping(st, top_offset.v, bottom_offset.v, row_size))

vertical_flip(width, height, st) ==
    LET row_size == checked_mul_usize(width, BYTE_PER_PIXEL) IN
    IF ~row_size.some THEN Fail(Info(st, "Flipped vertical"), "Width out of bounds")
    ELSE vertical_flip_rows(0, height, row_size.v, Info(st, "Flipped vertical"))

\* mutant: the right pixel is taken from the first row (row_start is not
\* added to its offset)
RECURSIVE horizontal_flip_pixels_first_row(_, _, _, _)
horizontal_flip_pixels_first_row(x, width, row_start, st) ==
    IF x >= width \div 2 \/ st.status # "run" THEN st
    ELSE LET left == checked_mul_usize(x, BYTE_PER_PIXEL)
             right == checked_mul_usize(width - 1 - x, BYTE_PER_PIXEL)
         IN IF ~left.some THEN Fail(st, "Left offset out of bounds")
            ELSE IF OverflowPanics(InUsize(row_start + left.v)) THEN Panic(st)
            ELSE IF ~right.some THEN Fail(st, "Right offset out of bounds")
            ELSE horizontal_flip_pixels_first_row(x + 1, width, row_start,
                    swap_nonoverlapping(st, WrapUsize(row_start + left.v), right.v,
                                        BYTE_PER_PIXEL))

\* mutant: the loop runs over all the pixels of the row, not over its left half
RECURSIVE horizontal_flip_pixels_all(_, _, _, _)
horizontal_flip_pixels_all(x, width, row_start, st) ==
    IF x >= width \/ st.status # "run" THEN st
    ELSE LET left == checked_mul_usize(x, BYTE_PER_PIXEL)
             right == checked_mul_usize(width - 1 - x, BYTE_PER_PIXEL)
         IN IF ~left.some THEN Fail(st, "Left offset out of bounds")
            ELSE IF OverflowPanics(InUsize(row_start + left.v)) THEN Panic(st)
            ELSE IF ~right.some THEN Fail(st, "Right offset out of bounds")
            ELSE IF OverflowPanics(InUsize(row_start + right.v)) THEN Panic(st)
            ELSE horizontal_flip_pixels_all(x + 1, width, row_start,
                    swap_nonoverlapping(st, WrapUsize(row_start + left.v),
                                        WrapUsize(row_start + right.v), BYTE_PER_PIXEL))

\* for x in 0..width / 2 { ... swap pixel x with pixel width - 1 - x of the row }
RECURSIVE horizontal_flip_pixels(_, _, _, _)
horizontal_flip_pixels(x, width, row_start, st) ==
    IF x >= width \div 2 \/ st.status # "run" THEN st
    ELSE LET left == checked_mul_usize(x, BYTE_PER_PIXEL)
             right == checked_mul_usize(width - 1 - x, BYTE_PER_PIXEL)
         IN IF ~left.some THEN Fail(st, "Left offset out of bounds")
            ELSE IF OverflowPanics(InUsize(row_start + left.v)) THEN Panic(st)
            ELSE IF ~right.some THEN Fail(st, "Right offset out of bounds")
            ELSE IF OverflowPanics(InUsize(row_start + right.v)) THEN Panic(st)
            ELSE horizontal_flip_pixels(x + 1, width, row_start,
                    swap_nonoverlapping(st, WrapUsize(row_start + left.v),
                                        WrapUsize(row_start + right.v), BYTE_PER_PIXEL))

\* for y in 0..height { let row_start = y * row_size; ... }
RECURSIVE horizontal_flip_rows(_, _, _, _, _)
horizontal_flip_rows(y, width, height, row_size, st) ==
    IF y >= height \/ st.status # "run" THEN st
    ELSE IF OverflowPanics(InUsize(y * row_size)) THEN Panic(st)
    ELSE horizontal_flip_rows(y + 1, width, height, row_size,
            horizontal_flip_pixels(0, width, WrapUsize(y * row_size), st))

horizontal_flip(width, height, st) ==
    LET row_size == checked_mul_usize(width, BYTE_PER_PIXEL) IN
    IF ~row_size.some THEN Fail(Info(st, "Flipped horizontal"), "Row size out of bounds")
    ELSE horizontal_flip_rows(0, width, height, row_size.v,
                              Info(st, "Flipped horizontal"))

\* mutant: the horizontal flip is an else-branch of the vertical one
mirror_transform_else_if(width, height, config, st) ==
    LET h == IF config.vertical_flip.some /\ config.vertical_flip.v = 1
             THEN vertical_flip(width, height, st)
             ELSE IF config.horizontal_flip.some /\ config.horizontal_flip.v = 1
             THEN horizontal_flip(width, height, st) ELSE st
    IN IF h.status = "run" THEN Return(Info(h, "Image processed successfully")) ELSE h

\* lines 130-203: the two flips, each when its flag is Some(true)
mirror_transform(width, height, config, st) ==
    LET v == IF config.vertical_flip.some /\ config.vertical_flip.v = 1
             THEN vertical_flip(width, height, st) ELSE st
        h == IF v.status # "run" THEN v
             ELSE IF config.horizontal_flip.some /\ config.horizontal_flip.v = 1
             THEN horizontal_flip(width, height, v) ELSE v
    IN IF h.status = "run" THEN Return(Info(h, "Image processed successfully")) ELSE h

\* mutant: a configuration that does not decode is replaced by a default
\* one (vertical flip) instead of ending the call
mirror_process_image_default_config(width, height, rgba_data, params, logger, data, max) ==
    IF logger # "Ok" THEN Return(CallState(data, <<>>, max))
    ELSE
    LET st0 == Info(CallState(data, <<>>, LevelDebug), "Start plugin")
        decoded == mirror_config_try_from(params)
        config == IF decoded.ok THEN decoded
                  ELSE [decoded EXCEPT !.ok = TRUE, !.vertical_flip = Some(1)]
        st1 == SetLevel(st0, config.has_level, config.log_level)
        w == try_into_usize(width)
        h == try_into_usize(height)
    IN IF params.kind = "null" THEN Fail(st0, "Pointer params is_null")
       ELSE IF params.kind = "bad_utf8" THEN Fail(st0, "Invalid config file")
       ELSE IF rgba_data = "null" THEN Fail(st1, "Null pointer rgba_data")
       ELSE IF width = 0 THEN Fail(st1, "width cannot be 0")
       ELSE IF height = 0 THEN Fail(st1, "height cannot be 0")
       ELSE IF ~w.some THEN Fail(st1, "Width conversion failed")
       ELSE IF ~h.some THEN Fail(st1, "Height conversion failed")
       ELSE mirror_transform(w.v, h.v, config, st1)

\* mirror_plugin::process_image.  rgba_data is "null" or "valid" (it then
\* points at data); logger is what setup_logger returned
mirror_process_image(width, height, rgba_data, params, logger, data, max) ==
    IF logger # "Ok" THEN Return(CallState(data, <<>>, max))
    ELSE
    LET st0 == Info(CallState(data, <<>>, LevelDebug), "Start plugin")
        config == mirror_config_try_from(params)
        st1 == SetLevel(st0, config.has_level, config.log_level)
        w == try_into_usize(width)
        h == try_into_usize(height)
    IN IF params.kind = "null" THEN Fail(st0, "Pointer params is_null")
       ELSE IF params.kind = "bad_utf8" THEN Fail(st0, "Invalid config file")
       ELSE IF ~config.ok THEN Fail(st0, "Error converting config to string")
       ELSE IF rgba_data = "null" THEN Fail(st1, "Null pointer rgba_data")
       ELSE IF width = 0 THEN Fail(st1, "width cannot be 0")
       ELSE IF height = 0 THEN Fail(st1, "height cannot be 0")
       ELSE IF ~w.some THEN Fail(st1, "Width conversion failed")
       ELSE IF ~h.some THEN Fail(st1, "Height conversion failed")
       ELSE mirror_transform(w.v, h.v, config, st1)

----------------------------------------------------------------------------
(* The blur plugin *)

\* what blur_rgba comes to: Ok((value, index)), Err(err) or a panic; with
\* it, the message logged, the indices read, the sum and the number of
\* the samples taken, and the indices of the samples by the branch that took
\* them (columns: lines 261-268; rows: lines 278-281, with the loop's i)
BlurOk(value, index, reads, sum, count) ==
    [tag |-> "Ok", value |-> value, index |-> index, err |-> "", msg |-> "",
     reads |-> reads, sum |-> sum, count |-> count, columns |-> {}, rows |-> {}]
BlurErr(err, msg, reads) ==
    [tag |-> "Err", value |-> 0, index |-> 0, err |-> err, msg |-> msg,
     reads |-> reads, sum |-> 0, count |-> 0, columns |-> {}, rows |-> {}]
BlurPanic(reads) ==
    [tag |-> "panic", value |-> 0, index |-> 0, err |-> "", msg |-> "",
     reads |-> reads, sum |-> 0, count |-> 0, columns |-> {}, rows |-> {}]

\* the window's running state: sum, count, the indices read, and the result
\* once an iteration has ended the function
Window(sum, count, reads) ==
    [sum |-> sum, count |-> count, reads |-> reads, done |-> FALSE,
     result |-> BlurPanic({}), columns |-> {}, rows |-> {}]
WindowEnd(acc, result) == [acc EXCEPT !.done = TRUE, !.result = result]
Overflow(acc, msg) == WindowEnd(acc, BlurErr("OverflowError", msg, acc.reads))

\* mutant: the sample is added to sum and not counted
ReadSample_uncounted(buf, acc, k) ==
    IF k \notin DOMAIN buf THEN WindowEnd(acc, BlurPanic(acc.reads))
    ELSE [acc EXCEPT !.sum = acc.sum + buf[k], !.reads = acc.reads \cup {k}]

\* buf[k as usize] as f64 added to sum, with the slice's bounds check
ReadSample(buf, acc, k) ==
    IF k \notin DOMAIN buf THEN WindowEnd(acc, BlurPanic(acc.reads))
    ELSE [acc EXCEPT !.sum = acc.sum + buf[k], !.count = acc.count + 1,
                     !.reads = acc.reads \cup {k}]

\* the sample just read was the column sample at k / the row sample of
\* iteration i at k
ColumnSample(acc, k) == [acc EXCEPT !.columns = @ \cup {k}]
RowSample(acc, i, k) == [acc EXCEPT !.rows = @ \cup {<<i, k>>}]

\* mutant: the row sample is taken at index + i * len_width_in_byte, the
\* channel added once
blur_row_sample_channel_once(buf, a, i, len_width_in_byte, acc) ==
    LET m == checked_mul_i32(i, len_width_in_byte)
        ir == a.index + m.v
        index_row == WrapI32(ir)
    IN IF acc.done THEN acc
       ELSE IF ~m.some THEN Overflow(acc, "Overflow type index_row")
       ELSE IF OverflowPanics(InI32(ir)) THEN WindowEnd(acc, BlurPanic(acc.reads))
       ELSE IF index_row >= 0 /\ index_row < a.buff_len
            THEN RowSample(ReadSample(buf, acc, index_row), i, index_row)
       ELSE acc

\* lines 269-281: the sample i rows away
blur_row_sample(buf, a, i, len_width_in_byte, acc) ==
    LET ci == a.channel + a.index
        m == checked_mul_i32(i, len_width_in_byte)
        ir == WrapI32(ci) + m.v
        index_row == WrapI32(ir)
    IN IF acc.done THEN acc
       ELSE IF OverflowPanics(InI32(ci)) THEN WindowEnd(acc, BlurPanic(acc.reads))
       ELSE IF ~m.some THEN Overflow(acc, "Overflow type index_row")
       ELSE IF OverflowPanics(InI32(ir)) THEN WindowEnd(acc, BlurPanic(acc.reads))
       ELSE IF index_row >= 0 /\ index_row < a.buff_len
            THEN RowSample(ReadSample(buf, acc, index_row), i, index_row)
       ELSE acc

\* lines 227-268: the sample i pixels away, if it is in the pixel's row
blur_column_sample(buf, a, i, acc) ==
    LET t == i + a.index_pixel
        m == checked_mul_i32(WrapI32(t), a.byte_per_pixel)
        ic == a.channel + m.v
        index_column == WrapI32(ic)
        len_width_in_byte == checked_mul_i32(a.width, a.byte_per_pixel)
        row == checked_div_i32(a.index, len_width_in_byte.v)
        left_base_index == checked_mul_i32(row.v, len_width_in_byte.v)
        l == left_base_index.v + a.channel
        left == WrapI32(l)
        r1 == left_base_index.v + len_width_in_byte.v
        r == WrapI32(r1) + a.channel
        right == WrapI32(r)
    IN IF OverflowPanics(InI32(t)) THEN WindowEnd(acc, BlurPanic(acc.reads))
       ELSE IF ~m.some THEN Overflow(acc, "Overflow type index_column")
       ELSE IF OverflowPanics(InI32(ic)) THEN WindowEnd(acc, BlurPanic(acc.reads))
       ELSE IF ~len_width_in_byte.some
            THEN Overflow(acc, "Overflow type len_width_in_byte")
       ELSE IF ~row.some THEN Overflow(acc, "Overflow type row")
       ELSE IF ~left_base_index.some THEN Overflow(acc, "Overflow type left_base_index")
       ELSE IF OverflowPanics(InI32(l)) \/ OverflowPanics(InI32(r1))
               \/ OverflowPanics(InI32(r))
            THEN WindowEnd(acc, BlurPanic(acc.reads))
       ELSE CHOOSE out \in
                {blur_row_sample(buf, a, i, len_width_in_byte.v, column) :
                    column \in
                        {IF index_column >= left /\ index_column < right /\ left >= 0
                            /\ right < a.buff_len /\ left < right
                         THEN ColumnSample(ReadSample(buf, acc, index_column),
                                           index_column)
                         ELSE acc}} : TRUE

\* for i in lo..=hi { ... }, the range taken in two halves, first the lower
\* and then the upper: the iterations run in the loop's order, each on the
\* state the one before it left, and none after the function has returned
RECURSIVE blur_window(_, _, _, _, _)
blur_window(buf, a, lo, hi, acc) ==
    IF acc.done \/ lo > hi THEN acc
    ELSE IF lo = hi THEN blur_column_sample(buf, a, lo, acc)
    ELSE LET mid == (lo + hi) \div 2
             lower == {blur_window(buf, a, lo, mid, acc)}
         IN CHOOSE upper \in {blur_window(buf, a, mid + 1, hi, half) : half \in lower} :
                TRUE

\* mutant: the sum is cast, not the mean
MeanAsU8_undivided(sum, count) ==
    IF count = 0 THEN 0
    ELSE IF sum > 255 THEN 255
    ELSE sum

\* (sum / count as f64) as u8: the cast truncates, saturates, and takes NaN
\* (0.0 / 0.0) to 0
MeanAsU8(sum, count) ==
    IF count = 0 THEN 0
    ELSE IF sum \div count > 255 THEN 255
    ELSE sum \div count

\* index as usize
I32AsUsize(x) == IF x >= 0 THEN x ELSE WrapUsize(x + USIZE_MAX + 1)

\* lines 283-284: the function's result once the loop has ended in acc
blur_result(a, acc) ==
    IF acc.done THEN acc.result
    ELSE [BlurOk(MeanAsU8(acc.sum, acc.count), I32AsUsize(a.index), acc.reads,
                 acc.sum, acc.count)
            EXCEPT !.columns = acc.columns, !.rows = acc.rows]

\* blur_plugin::blur_rgba
blur_rgba(buf, index_pixel, width, height, byte_per_pixel, radius, channel) ==
    LET len == Cardinality(DOMAIN buf)
        wh == width * height
        whb == WrapUsize(wh) * byte_per_pixel
        ip == try_into_i32(index_pixel)
        rd == try_into_i32(radius)
        ch == try_into_i32(channel)
        bpp == try_into_i32(byte_per_pixel)
        w == try_into_i32(width)
        buff_len == try_into_i32(len)
        m == checked_mul_i32(ip.v, bpp.v)
        idx == ch.v + m.v
        a == [index_pixel |-> ip.v, radius |-> rd.v, channel |-> ch.v,
              byte_per_pixel |-> bpp.v, width |-> w.v, buff_len |-> buff_len.v,
              index |-> WrapI32(idx)]
    IN IF OverflowPanics(InUsize(wh)) \/ OverflowPanics(InUsize(whb))
          \/ len # WrapUsize(whb)
       THEN BlurPanic({})
       ELSE IF radius = 0 THEN BlurErr("ErrorValue", "Radius cannot be 0", {})
       ELSE IF ~ip.some \/ ~rd.some \/ ~ch.some \/ ~bpp.some \/ ~w.some
               \/ ~buff_len.some
            THEN BlurErr("TryFromIntError", "", {})
       ELSE IF ~m.some THEN BlurErr("OverflowError", "Overflow type index", {})
       ELSE IF OverflowPanics(InI32(idx)) THEN BlurPanic({})
       ELSE CHOOSE result \in
                {blur_result(a, acc) :
                    acc \in {blur_window(buf, a, -rd.v, rd.v, Window(0, 0, {}))}} : TRUE

\* lines 168-170: if let Ok((sum, index)) = result { buf[index] = sum; }
\* (an error has been logged inside blur_rgba)
blur_write(st, result) ==
    LET read == [st EXCEPT !.touched = @ \cup result.reads]
    IN IF result.tag = "panic" THEN Panic(read)
       ELSE IF result.tag = "Err"
            THEN [read EXCEPT
                    !.log = IF result.msg = "" THEN read.log
                            ELSE Emit(read.log, read.max, LevelError, result.msg),
                    !.errors = read.errors \cup {result.err}]
       ELSE IF result.index \notin DOMAIN st.data THEN Panic(read)
       ELSE [read EXCEPT !.data = [st.data EXCEPT ![result.index] = result.value],
                         !.touched = read.touched \cup {result.index},
                         !.written = read.written \cup {result.index}]

\* lines 159-170: one channel of one pixel
blur_channel(st, i, width, height, radius, channel) ==
    IF st.status # "run" THEN st
    ELSE CHOOSE out \in
             {blur_write(st, result) :
                 result \in {blur_rgba(st.data, i, width, height, BYTE_PER_PIXEL,
                                       radius, channel)}} : TRUE

\* for channel in lo..=hi { ... }
RECURSIVE blur_channels(_, _, _, _, _, _, _)
blur_channels(st, i, lo, hi, width, height, radius) ==
    IF st.status # "run" \/ lo > hi THEN st
    ELSE CHOOSE rest \in {blur_channels(next, i, lo + 1, hi, width, height, radius) :
                           next \in {blur_channel(st, i, width, height, radius, lo)}} :
             TRUE

\* for channel in 0..4 { ... }
blur_pixel(st, i, width, height, radius) ==
    blur_channels(st, i, 0, BYTE_PER_PIXEL - 1, width, height, radius)

\* for i in lo..=hi { ... }, the range taken in two halves, first the lower
\* and then the upper
RECURSIVE blur_pixels(_, _, _, _, _, _)
blur_pixels(st, lo, hi, width, height, radius) ==
    IF st.status # "run" \/ lo > hi THEN st
    ELSE IF lo = hi THEN blur_pixel(st, lo, width, height, radius)
    ELSE LET mid == (lo + hi) \div 2
             lower == {blur_pixels(st, lo, mid, width, height, radius)}
         IN CHOOSE upper \in {blur_pixels(half, mid + 1, hi, width, height, radius) :
                                half \in lower} : TRUE

\* mutant: one pass over the image, whatever the step
blur_passes_once(st, pass, step, width, height, radius) ==
    IF step = 0 \/ st.status # "run" THEN st
    ELSE blur_pixels(st, 0, width * height - 1, width, height, radius)

\* for _ in 0..step { for i in 0..len_image { ... } }
RECURSIVE blur_passes(_, _, _, _, _, _)
blur_passes(st, pass, step, width, height, radius) ==
    IF pass >= step \/ st.status # "run" THEN st
    ELSE CHOOSE rest \in {blur_passes(next, pass + 1, step, width, height, radius) :
                           next \in {blur_pixels(st, 0, width * height - 1, width,
                                                 height, radius)}} : TRUE

\* mutant: a step of 0 is a call that does nothing, without an error
blur_transform_silent_step(width, height, config, st) ==
    LET h == try_into_usize(height)
        w == try_into_usize(width)
        len_image == checked_mul_usize(w.v, h.v)
        len_in_pixel == checked_mul_usize(len_image.v, BYTE_PER_PIXEL)
        passes == blur_passes(st, 0, config.step, w.v, h.v, config.radius)
    IN IF ~h.some THEN Fail(st, "Height conversion failed")
       ELSE IF ~w.some THEN Fail(st, "Width conversion failed")
       ELSE IF ~len_image.some \/ ~len_in_pixel.some
            THEN Fail(st, "Length calculation failed")
       ELSE IF len_in_pixel.v > Cardinality(DOMAIN st.data)
            THEN [st EXCEPT !.status = "ub"]
       ELSE IF config.radius = 0 THEN Fail(st, "Radius cannot be 0")
       ELSE IF passes.status = "run"
            THEN Return(Info(passes, "Finish converting image"))
       ELSE passes

\* lines 124-182: the buffer view and the passes
blur_transform(width, height, config, st) ==
    LET h == try_into_usize(height)
        w == try_into_usize(width)
        len_image == checked_mul_usize(w.v, h.v)
        len_in_pixel == checked_mul_usize(len_image.v, BYTE_PER_PIXEL)
        passes == blur_passes(st, 0, config.step, w.v, h.v, config.radius)
    IN IF ~h.some THEN Fail(st, "Height conversion failed")
       ELSE IF ~w.some THEN Fail(st, "Width conversion failed")
       ELSE IF ~len_image.some \/ ~len_in_pixel.some
            THEN Fail(st, "Length calculation failed")
       ELSE IF len_in_pixel.v > Cardinality(DOMAIN st.data)
            THEN [st EXCEPT !.status = "ub"]
       ELSE IF config.radius = 0 THEN Fail(st, "Radius cannot be 0")
       ELSE IF config.step = 0 THEN Fail(st, "Step cannot be 0")
       ELSE IF passes.status = "run"
            THEN Return(Info(passes, "Finish converting image"))
       ELSE passes

\* mutant: the buffer pointer is checked first, before the configuration
blur_process_image_buffer_first(width, height, rgba_data, params, logger, data, max) ==
    IF logger = "Error" THEN Return(CallState(data, <<>>, max))
    ELSE
    LET st0 == Info(IF logger = "Ok" THEN CallState(data, <<>>, LevelDebug)
                    ELSE CallState(data, Emit(<<>>, max, LevelWarn, "Logger init error"),
                                   max),
                    "Start plugin")
        config == blur_config_try_from(params)
        st1 == SetLevel(st0, config.has_level, config.log_level)
    IN IF rgba_data = "null" THEN Fail(st0, "Null pointer rgba_data")
       ELSE IF params.kind = "null" THEN Fail(st0, "Pointer params is_null")
       ELSE IF params.kind = "bad_utf8" THEN Fail(st0, "Invalid config file")
       ELSE IF ~config.ok THEN Fail(st0, "Error converting config to string")
       ELSE IF width = 0 THEN Fail(st1, "width cannot be 0")
       ELSE IF height = 0 THEN Fail(st1, "height cannot be 0")
       ELSE blur_transform(width, height, config, Info(st1, "Start converting image"))

\* blur_plugin::process_image
blur_process_image(width, height, rgba_data, params, logger, data, max) ==
    IF logger = "Error" THEN Return(CallState(data, <<>>, max))
    ELSE
    LET st0 == Info(IF logger = "Ok" THEN CallState(data, <<>>, LevelDebug)
                    ELSE CallState(data, Emit(<<>>, max, LevelWarn, "Logger init error"),
                                   max),
                    "Start plugin")
        config == blur_config_try_from(params)
        st1 == SetLevel(st0, config.has_level, config.log_level)
    IN IF params.kind = "null" THEN Fail(st0, "Pointer params is_null")
       ELSE IF params.kind = "bad_utf8" THEN Fail(st0, "Invalid config file")
       ELSE IF ~config.ok THEN Fail(st0, "Error converting config to string")
       ELSE IF rgba_data = "null" THEN Fail(st1, "Null pointer rgba_data")
       ELSE IF width = 0 THEN Fail(st1, "width cannot be 0")
       ELSE IF height = 0 THEN Fail(st1, "height cannot be 0")
       ELSE blur_transform(width, height, config, Info(st1, "Start converting image"))

----------------------------------------------------------------------------
(* The host and the calls it makes *)

\* buffers the host may hold: byte k is (p[1] + p[2] * k) mod 256
Patterns == {<<0, 1>>, <<200, 37>>, <<9, 0>>}
Pattern(p, n) == [k \in 0 .. n - 1 |-> (p[1] + p[2] * k) % 256]

Images ==
    {[width |-> w, height |-> h, data |-> Pattern(p, w * h * BYTE_PER_PIXEL)] :
        w \in 1 .. MaxW, h \in 1 .. MaxH, p \in Patterns}

\* how a call's arguments relate to the host's image: the true width and
\* height or 0, the buffer's address or NULL, and what setup_logger returns
Shape(zw, zh, ptr, logger) ==
    [zero_width |-> zw, zero_height |-> zh, rgba_data |-> ptr, logger |-> logger]
GoodShape == Shape(FALSE, FALSE, "valid", "Ok")
Shapes ==
    {Shape(zw, zh, ptr, "Ok") : zw \in BOOLEAN, zh \in BOOLEAN, ptr \in {"null", "valid"}}
    \cup {Shape(FALSE, FALSE, "valid", l) : l \in LoggerResults}
    \cup {Shape(FALSE, FALSE, "null", "LoggerInitError")}

Flags == {JAbsent, JBool(TRUE), JBool(FALSE)}
MirrorDoc(v, h, l) == ParamsObject(Doc(JAbsent, JAbsent, v, h, l))
BlurDoc(r, st, l) == ParamsObject(Doc(r, st, JAbsent, JAbsent, l))

MirrorParams ==
    {ParamsNull, ParamsBadUtf8, ParamsMalformed}
    \cup {MirrorDoc(v, h, JAbsent) : v \in Flags, h \in Flags}
    \cup {MirrorDoc(JBool(TRUE), JNull, JNull),
          MirrorDoc(JInt(1), JBool(TRUE), JAbsent),
          MirrorDoc(JBool(TRUE), JStr("true"), JAbsent),
          MirrorDoc(JBool(TRUE), JBool(FALSE), JStr("error")),
          MirrorDoc(JBool(TRUE), JBool(TRUE), JStr("verbose")),
          MirrorDoc(JBool(TRUE), JBool(TRUE), JInt(3)),
          ParamsObject(Doc(JInt(5), JInt(2), JAbsent, JAbsent, JAbsent))}
MirrorSample ==
    {ParamsNull, ParamsBadUtf8, ParamsMalformed,
     MirrorDoc(JBool(TRUE), JBool(TRUE), JAbsent),
     MirrorDoc(JBool(TRUE), JBool(TRUE), JStr("error"))}
MirrorSeqParams ==
    {MirrorDoc(JBool(TRUE), JBool(FALSE), JAbsent),
     MirrorDoc(JAbsent, JBool(TRUE), JAbsent),
     MirrorDoc(JBool(TRUE), JBool(TRUE), JAbsent)}

\* the least radius whose product with BYTE_PER_PIXEL leaves the i32 range
OverflowRadius == (I32_MAX \div BYTE_PER_PIXEL) + 1
Radii ==
    {0, 1, 2, 3, OverflowRadius - 1, OverflowRadius, OverflowRadius + 1,
     I32_MAX - 1, I32_MAX, I32_MAX + 1}

BlurParams ==
    {ParamsNull, ParamsBadUtf8, ParamsMalformed}
    \cup {BlurDoc(JInt(r), JInt(1), JAbsent) : r \in Radii}
    \cup {BlurDoc(JInt(r), JInt(st), JAbsent) : r \in {0, 1, 2}, st \in {0, 2}}
    \cup {BlurDoc(JAbsent, JInt(1), JAbsent),
          BlurDoc(JInt(1), JAbsent, JAbsent),
          BlurDoc(JInt(-1), JInt(1), JAbsent),
          BlurDoc(JInt(USIZE_MAX + 1), JInt(1), JAbsent),
          BlurDoc(JFloat, JInt(1), JAbsent),
          BlurDoc(JInt(1), JStr("1"), JAbsent),
          BlurDoc(JInt(1), JInt(1), JStr("info")),
          BlurDoc(JInt(1), JInt(1), JBool(TRUE)),
          ParamsObject(Doc(JInt(2), JInt(1), JBool(TRUE), JAbsent, JNull))}
BlurSample ==
    {ParamsNull, ParamsBadUtf8, ParamsMalformed,
     BlurDoc(JInt(1), JInt(1), JAbsent),
     BlurDoc(JInt(1), JInt(1), JStr("warn"))}
BlurSeqParams ==
    {BlurDoc(JInt(1), JInt(1), JAbsent), BlurDoc(JInt(2), JInt(1), JAbsent)}

\* a run of the host is one call with any arguments, or up to MaxCalls
\* well-formed calls with the configurations of seq
Inputs(first, all, sample, seq) ==
    IF first
    THEN ({GoodShape} \X all) \cup ((Shapes \ {GoodShape}) \X sample)
    ELSE {GoodShape} \X seq

SeqParams == MirrorSeqParams \cup BlurSeqParams

WidthArg(shape) == IF shape.zero_width THEN 0 ELSE image.width
HeightArg(shape) == IF shape.zero_height THEN 0 ELSE image.height

NoCall ==
    [plugin |-> "none", width |-> 0, height |-> 0, rgba_data |-> "null",
     params |-> ParamsNull, logger |-> "Ok", before |-> <<>>, log |-> <<>>,
     touched |-> {}, swaps |-> <<>>, written |-> {}, errors |-> {},
     exit |-> "", status |-> "return"]

\* the file at plugin_path: one of the two plugins, a file that is not a
\* loadable library, or a library that exports no process_image
Libraries == {"mirror_plugin", "blur_plugin", "not_a_library", "no_process_image"}

\* main at line 75: the paths exist, the params file is read, the image is
\* decoded
MainStart(library) ==
    [pc |-> "load", library |-> library, loads |-> 0, resolves |-> 0,
     saved |-> FALSE, result |-> ""]

\* return Err(e.into()) / the ? operator
MainReturns(m, result) == [m EXCEPT !.pc = "done", !.result = result]

\* mutant: a library that does not load is tried once more
plugin_new_retry(m) ==
    IF m.library = "not_a_library"
    THEN (IF m.loads < 1 THEN [m EXCEPT !.loads = m.loads + 1]
          ELSE MainReturns([m EXCEPT !.loads = m.loads + 1], "PluginError"))
    ELSE [m EXCEPT !.loads = m.loads + 1, !.pc = "resolve"]

\* let plugin = Plugin::new(..)?;
plugin_new(m) ==
    IF m.library = "not_a_library"
    THEN MainReturns([m EXCEPT !.loads = m.loads + 1], "PluginError")
    ELSE [m EXCEPT !.loads = m.loads + 1, !.pc = "resolve"]

\* let plugin = plugin.interface()?;
plugin_interface(m) ==
    IF m.library = "no_process_image"
    THEN MainReturns([m EXCEPT !.resolves = m.resolves + 1], "PluginError")
    ELSE [m EXCEPT !.resolves = m.resolves + 1, !.pc = "invoke"]

\* RgbaImage::from_raw(..) and image.save(..)?, the latter ending in outcome
image_save(m, width, height, data, outcome) ==
    IF Cardinality(DOMAIN data) < width * height * BYTE_PER_PIXEL
    THEN MainReturns(m, "ConvertFromRawError")
    ELSE MainReturns([m EXCEPT !.saved = (outcome = "Ok")], outcome)

SaveResults == {"Ok", "ImageReadError"}

Init ==
    /\ image \in Images
    /\ main \in {MainStart(l) : l \in Libraries}
    /\ overflow_checks \in BOOLEAN
    /\ max_level = LevelOff
    /\ calls = 0
    /\ orig = image.data
    /\ trail = <<>>
    /\ last = NoCall

\* the host's state after process_image has ended in st
Called(plugin, shape, params, st) ==
    /\ image' = [image EXCEPT !.data = st.data]
    /\ max_level' = st.max
    /\ calls' = calls + 1
    /\ trail' = Append(trail, [plugin |-> plugin, params |-> params,
                               good |-> shape = GoodShape])
    /\ last' = [plugin |-> plugin, width |-> WidthArg(shape),
                height |-> HeightArg(shape), rgba_data |-> shape.rgba_data,
                params |-> params, logger |-> shape.logger, before |-> image.data,
                log |-> st.log, touched |-> st.touched, swaps |-> st.swaps,
                written |-> st.written, errors |-> st.errors, exit |-> st.exit,
                status |-> st.status]
    /\ UNCHANGED <<overflow_checks, orig, main>>

\* a process that has panicked or run into undefined behaviour makes no
\* further call
CanCall ==
    /\ main.pc = "invoke"
    /\ calls < MaxCalls
    /\ last.status = "return"
    /\ \A k \in DOMAIN trail : trail[k].good /\ trail[k].params \in SeqParams

PluginNew ==
    /\ main.pc = "load"
    /\ main' = plugin_new(main)
    /\ UNCHANGED <<image, overflow_checks, max_level, calls, orig, trail, last>>

PluginInterface ==
    /\ main.pc = "resolve"
    /\ main' = plugin_interface(main)
    /\ UNCHANGED <<image, overflow_checks, max_level, calls, orig, trail, last>>

\* the image is saved once the plugin has returned to main
ImageSave ==
    /\ main.pc = "invoke" /\ calls >= 1 /\ last.status = "return"
    /\ \E outcome \in SaveResults :
         main' = image_save(main, image.width, image.height, image.data, outcome)
    /\ UNCHANGED <<image, overflow_checks, max_level, calls, orig, trail, last>>

MirrorProcessImage ==
    /\ CanCall
    /\ main.library = "mirror_plugin"
    /\ \E in \in Inputs(calls = 0, MirrorParams, MirrorSample, MirrorSeqParams) :
         Called("mirror", in[1], in[2],
                mirror_process_image(WidthArg(in[1]), HeightArg(in[1]),
                                     in[1].rgba_data, in[2], in[1].logger,
                                     image.data, max_level))

BlurProcessImage ==
    /\ CanCall
    /\ main.library = "blur_plugin"
    /\ \E in \in Inputs(calls = 0, BlurParams, BlurSample, BlurSeqParams) :
         Called("blur", in[1], in[2],
                blur_process_image(WidthArg(in[1]), HeightArg(in[1]),
                                   in[1].rgba_data, in[2], in[1].logger,
                                   image.data, max_level))

Next ==
    \/ PluginNew
    \/ PluginInterface
    \/ MirrorProcessImage
    \/ BlurProcessImage
    \/ ImageSave

Spec == Init /\ [][Next]_vars

----------------------------------------------------------------------------
(* Properties *)

\* the call's configuration string decodes for the plugin called
Decodes(call) ==
    IF call.plugin = "blur" THEN blur_config_try_from(call.params).ok
    ELSE mirror_config_try_from(call.params).ok

\* the call got past setup_logger
ReachedPreamble(call) ==
    call.logger = "Ok" \/ (call.plugin = "blur" /\ call.logger = "LoggerInitError")

\* the call had well-formed arguments and a configuration that decodes
WellFormed(call) ==
    /\ ReachedPreamble(call) /\ Decodes(call)
    /\ call.rgba_data = "valid" /\ call.width > 0 /\ call.height > 0

Degenerate(call) ==
    \/ call.width = 0 \/ call.height = 0
    \/ call.rgba_data = "null"
    \/ call.params.kind = "null"
    \/ ~Decodes(call)

\* C1: in both plugins a call with width 0, height 0, a null buffer pointer,
\* a null config pointer or a config string that does not decode returns
\* normally and leaves every byte of the buffer as it was before the call.
C1_DegenerateCallLeavesBuffer ==
    (calls >= 1 /\ Degenerate(last))
        => (last.status = "return" /\ image.data = last.before)

C1_Witness ==
    /\ calls = 1 /\ last.plugin = "mirror" /\ last.logger = "Ok"
    /\ last.params = ParamsMalformed
    /\ last.rgba_data = "valid" /\ last.width = 2 /\ last.height = 2
    /\ last.status = "return" /\ image.data = last.before

\* the first of the six preamble checks, in the order of the contract, that
\* the call's arguments fail (0: none; check 4 adjusts the level and cannot fail)
FirstFailedCheck(call) ==
    IF call.params.kind = "null" THEN 1
    ELSE IF call.params.kind = "bad_utf8" THEN 2
    ELSE IF ~Decodes(call) THEN 3
    ELSE IF call.rgba_data = "null" THEN 5
    ELSE IF call.width = 0 \/ call.height = 0 THEN 6
    ELSE 0

CheckMessage(call) ==
    CASE FirstFailedCheck(call) = 1 -> "Pointer params is_null"
      [] FirstFailedCheck(call) = 2 -> "Invalid config file"
      [] FirstFailedCheck(call) = 3 -> "Error converting config to string"
      [] FirstFailedCheck(call) = 5 -> "Null pointer rgba_data"
      [] FirstFailedCheck(call) = 6 ->
            IF call.width = 0 THEN "width cannot be 0" ELSE "height cannot be 0"
      [] OTHER -> ""

\* the log maximum a call leaves when its logger was set up and it ends at
\* check n: the level of the configuration once step 4 has run
LevelAfter(call) ==
    IF FirstFailedCheck(call) \in {5, 6} /\ call.params.doc.log_level.t = "str"
    THEN get_log_level(call.params.doc.log_level.s)
    ELSE LevelDebug

\* C2: both plugins run the preamble checks in the order config pointer
\* null, config UTF-8, config decodes, log level adjusted, buffer pointer
\* null, width/height zero: the call ends at the first check that fails
\* (the level adjusted exactly when the first three passed), and a call in
\* which a check fails reads and writes no byte of the buffer.
C2_PreambleOrderNoAccess ==
    (calls >= 1 /\ ReachedPreamble(last) /\ FirstFailedCheck(last) # 0)
        => /\ last.status = "return"
           /\ last.exit = CheckMessage(last)
           /\ last.touched = {} /\ last.written = {} /\ last.swaps = <<>>
           /\ image.data = last.before
           /\ (last.logger = "Ok" => max_level = LevelAfter(last))

C2_Witness ==
    /\ calls = 1 /\ last.plugin = "blur" /\ last.logger = "Ok"
    /\ last.params = BlurDoc(JInt(1), JInt(1), JStr("warn"))
    /\ last.rgba_data = "null" /\ last.width = 0
    /\ last.exit = "Null pointer rgba_data" /\ max_level = LevelWarn
    /\ last.touched = {}

\* the mirror call's flags as decoded: Some(true) or not
FlipsVertical(call) ==
    mirror_config_try_from(call.params).vertical_flip = Some(1)
FlipsHorizontal(call) ==
    mirror_config_try_from(call.params).horizontal_flip = Some(1)

MirrorRan(call) == call.plugin = "mirror" /\ WellFormed(call)

RowBytes == image.width * BYTE_PER_PIXEL
Seq16(data) == [k \in 1 .. 16 |-> data[k - 1]]

\* C3: after the mirror plugin's process_image with vertical_flip = true and
\* horizontal_flip false or absent, the byte at row r, in-row offset k is the
\* original byte at row height-1-r, offset k (the middle row of an odd
\* height stays), and the 2x2 buffer 0..15 becomes 8..15,0..7.
C3_VerticalFlip ==
    (calls >= 1 /\ MirrorRan(last) /\ FlipsVertical(last) /\ ~FlipsHorizontal(last))
        => /\ last.status = "return"
           /\ DOMAIN image.data = DOMAIN last.before
           /\ \A r \in 0 .. image.height - 1 : \A k \in 0 .. RowBytes - 1 :
                image.data[r * RowBytes + k]
                    = last.before[(image.height - 1 - r) * RowBytes + k]
           /\ (image.width = 2 /\ image.height = 2 /\ last.before = Pattern(<<0, 1>>, 16))
                => Seq16(image.data)
                    = <<8, 9, 10, 11, 12, 13, 14, 15, 0, 1, 2, 3, 4, 5, 6, 7>>

C3_Witness ==
    /\ calls = 1 /\ MirrorRan(last) /\ FlipsVertical(last) /\ ~FlipsHorizontal(last)
    /\ image.height = 3 /\ image.width = 2
    /\ last.before = Pattern(<<0, 1>>, 24)
    /\ image.data[0] = 16 /\ image.data[8] = 8 /\ image.data[16] = 0

\* C4: after the mirror plugin's process_image with horizontal_flip = true
\* and vertical_flip false or absent, the pixel at column x of row y is the
\* original pixel at column width-1-x of row y, its four bytes in their
\* original order, and the 2x2 buffer 0..15 becomes 4..7,0..3,12..15,8..11.
C4_HorizontalFlip ==
    (calls >= 1 /\ MirrorRan(last) /\ FlipsHorizontal(last) /\ ~FlipsVertical(last))
        => /\ last.status = "return"
           /\ DOMAIN image.data = DOMAIN last.before
           /\ \A y \in 0 .. image.height - 1 : \A x \in 0 .. image.width - 1 :
                \A c \in 0 .. BYTE_PER_PIXEL - 1 :
                    image.data[y * RowBytes + x * BYTE_PER_PIXEL + c]
                        = last.before[y * RowBytes
                                      + (image.width - 1 - x) * BYTE_PER_PIXEL + c]
           /\ (image.width = 2 /\ image.height = 2 /\ last.before = Pattern(<<0, 1>>, 16))
                => Seq16(image.data)
                    = <<4, 5, 6, 7, 0, 1, 2, 3, 12, 13, 14, 15, 8, 9, 10, 11>>

C4_Witness ==
    /\ calls = 1 /\ MirrorRan(last) /\ FlipsHorizontal(last) /\ ~FlipsVertical(last)
    /\ image.width = 3 /\ image.height = 2
    /\ last.before = Pattern(<<0, 1>>, 24)
    /\ image.data[0] = 8 /\ image.data[4] = 4 /\ image.data[8] = 0
    /\ image.data[12] = 20

\* the run so far is two well-formed mirror calls with configurations p and q
TwoMirrorCalls(p, q) ==
    /\ calls = 2
    /\ trail[1].plugin = "mirror" /\ trail[1].good /\ trail[1].params = p
    /\ trail[2].plugin = "mirror" /\ trail[2].good /\ trail[2].params = q

VerticalOnly == MirrorDoc(JBool(TRUE), JBool(FALSE), JAbsent)
HorizontalOnly == MirrorDoc(JAbsent, JBool(TRUE), JAbsent)
BothFlips == MirrorDoc(JBool(TRUE), JBool(TRUE), JAbsent)

\* C5: two successive mirror calls with the same configuration, vertical
\* flip only or horizontal flip only, give back the original bytes.
C5_FlipInvolution ==
    (TwoMirrorCalls(VerticalOnly, VerticalOnly)
     \/ TwoMirrorCalls(HorizontalOnly, HorizontalOnly))
        => (last.status = "return" /\ image.data = orig)

C5_Witness ==
    /\ TwoMirrorCalls(HorizontalOnly, HorizontalOnly)
    /\ image.width = 3 /\ image.height = 3
    /\ last.before # orig /\ image.data = orig

\* what one well-formed mirror call with configuration p makes of data
MirrorOf(p, data) ==
    mirror_process_image(image.width, image.height, "valid", p, "Ok", data,
                         LevelDebug).data

\* C6: a vertical-only call followed by a horizontal-only call gives the
\* same buffer as the horizontal-only call followed by the vertical-only
\* one, and both give the buffer of one call with both flags true.
C6_FlipsCommute ==
    /\ TwoMirrorCalls(VerticalOnly, HorizontalOnly)
        => /\ image.data = MirrorOf(BothFlips, orig)
           /\ image.data = MirrorOf(VerticalOnly, MirrorOf(HorizontalOnly, orig))
    /\ TwoMirrorCalls(HorizontalOnly, VerticalOnly)
        => /\ image.data = MirrorOf(BothFlips, orig)
           /\ image.data = MirrorOf(HorizontalOnly, MirrorOf(VerticalOnly, orig))

C6_Witness ==
    /\ TwoMirrorCalls(HorizontalOnly, VerticalOnly)
    /\ image.width = 2 /\ image.height = 3
    /\ orig = Pattern(<<0, 1>>, 24)
    /\ image.data[0] = 20 /\ image.data[20] = 0 /\ image.data[4] = 16

BlurRan(call) == call.plugin = "blur" /\ WellFormed(call)
Radius(call) == blur_config_try_from(call.params).radius
Step(call) == blur_config_try_from(call.params).step

\* C7: the blur plugin's process_image on the 2x2 buffer 0..15 with radius 2
\* and step 1 leaves [3,4,6,7,5,7,5,7,5,8,8,9,8,9,4,7].
C7_BlurGolden ==
    (calls >= 1 /\ BlurRan(last) /\ Radius(last) = 2 /\ Step(last) = 1
     /\ last.width = 2 /\ last.height = 2 /\ last.before = Pattern(<<0, 1>>, 16))
        => /\ last.status = "return"
           /\ Seq16(image.data) = <<3, 4, 6, 7, 5, 7, 5, 7, 5, 8, 8, 9, 8, 9, 4, 7>>

C7_Witness ==
    /\ calls = 1 /\ BlurRan(last) /\ Radius(last) = 2 /\ Step(last) = 1
    /\ last.width = 2 /\ last.height = 2 /\ last.before = Pattern(<<0, 1>>, 16)
    /\ last.written = 0 .. 15 /\ image.data[0] = 3 /\ image.data[15] = 7

\* a radius within i32 whose product with BYTE_PER_PIXEL is not
HugeRadius(r) == r <= I32_MAX /\ r * BYTE_PER_PIXEL > I32_MAX

Pixels == 0 .. image.width * image.height - 1
Channels == 0 .. BYTE_PER_PIXEL - 1

\* C8: with a radius within i32 whose product with 4 leaves the i32 range,
\* blur_rgba returns OverflowError for every pixel and channel of a small
\* buffer, reads no byte outside the buffer, does not panic, and the
\* process_image call leaves the buffer unchanged.
C8_HugeRadiusRejected ==
    (calls >= 1 /\ BlurRan(last) /\ HugeRadius(Radius(last)) /\ Step(last) > 0)
        => /\ \A p \in Pixels : \A c \in Channels :
                LET res == blur_rgba(last.before, p, image.width, image.height,
                                     BYTE_PER_PIXEL, Radius(last), c)
                IN /\ res.tag = "Err" /\ res.err = "OverflowError"
                   /\ res.reads \subseteq DOMAIN last.before
           /\ last.status = "return"
           /\ image.data = last.before

C8_Witness ==
    /\ calls = 1 /\ BlurRan(last) /\ Radius(last) = I32_MAX /\ Step(last) = 1
    /\ image.width = 2 /\ image.height = 2
    /\ last.errors = {"OverflowError"} /\ last.written = {}
    /\ last.status = "return"

\* C9: a blur configuration with radius 0 or step 0 is rejected: the call
\* logs an error and returns with the buffer unchanged, having written no
\* byte, and blur_rgba with radius 0 returns an error, not a value.
C9_ZeroRadiusOrStepRejected ==
    (calls >= 1 /\ BlurRan(last) /\ (Radius(last) = 0 \/ Step(last) = 0))
        => /\ last.status = "return"
           /\ last.exit = (IF Radius(last) = 0 THEN "Radius cannot be 0"
                           ELSE "Step cannot be 0")
           /\ (last.logger = "Ok"
                 => last.log # <<>> /\ last.log[Len(last.log)] = last.exit)
           /\ last.written = {}
           /\ image.data = last.before
           /\ \A p \in Pixels : \A c \in Channels :
                blur_rgba(last.before, p, image.width, image.height,
                          BYTE_PER_PIXEL, 0, c).tag = "Err"

C9_Witness ==
    /\ calls = 1 /\ BlurRan(last) /\ Radius(last) = 1 /\ Step(last) = 0
    /\ last.logger = "Ok"
    /\ last.exit = "Step cannot be 0" /\ last.log[Len(last.log)] = "Step cannot be 0"
    /\ image.data = last.before

Min(S) == CHOOSE x \in S : \A y \in S : x <= y
Max(S) == CHOOSE x \in S : \A y \in S : x >= y

\* C10: whenever blur_rgba returns Ok (width, height, radius >= 1), at least
\* one sample was included, the value is the integer part of sum/count, and
\* so it lies between the least and the greatest included byte and in 0..255.
C10_MeanOfAtLeastOneSample ==
    (calls >= 1 /\ BlurRan(last) /\ Radius(last) >= 1)
        => \A p \in Pixels : \A c \in Channels :
             LET res == blur_rgba(last.before, p, image.width, image.height,
                                  BYTE_PER_PIXEL, Radius(last), c)
                 bytes == {last.before[k] : k \in res.reads}
             IN res.tag = "Ok"
                  => /\ res.count >= 1
                     /\ res.reads # {}
                     /\ res.count * res.value <= res.sum
                     /\ res.sum < res.count * (res.value + 1)
                     /\ Min(bytes) <= res.value /\ res.value <= Max(bytes)
                     /\ res.value \in 0 .. 255

C10_Witness ==
    /\ calls = 1 /\ BlurRan(last) /\ Radius(last) = 1
    /\ image.width = 3 /\ image.height = 1
    /\ last.before = Pattern(<<200, 37>>, 12)
    /\ LET res == blur_rgba(last.before, 2, 3, 1, BYTE_PER_PIXEL, 1, 3)
       IN res.tag = "Ok" /\ res.count = 1 /\ res.reads = {2}
          /\ res.value = last.before[2] /\ res.index = 11

\* every byte of the buffer has the same value
Uniform(data) == \A j \in DOMAIN data : \A k \in DOMAIN data : data[j] = data[k]

\* no offset that blur_rgba computes for a w x h image and radius r leaves
\* the i32 range: the greatest is channel + index + r * (w * 4)
Fits(w, h, r) ==
    2 * (BYTE_PER_PIXEL - 1) + BYTE_PER_PIXEL * (w * h - 1) + r * w * BYTE_PER_PIXEL
        <= I32_MAX

\* C11: on a buffer whose bytes all equal v, with a radius >= 1 that does
\* not overflow, blur_rgba returns Ok((v, 4*p + c)) for every pixel p and
\* channel c, and process_image with any step leaves the buffer unchanged.
C11_UniformBufferFixed ==
    (calls >= 1 /\ BlurRan(last) /\ Radius(last) >= 1 /\ Step(last) >= 1
     /\ Fits(image.width, image.height, Radius(last)) /\ Uniform(last.before))
        => /\ \A p \in Pixels : \A c \in Channels :
                LET res == blur_rgba(last.before, p, image.width, image.height,
                                     BYTE_PER_PIXEL, Radius(last), c)
                IN /\ res.tag = "Ok"
                   /\ res.value = last.before[0]
                   /\ res.index = BYTE_PER_PIXEL * p + c
           /\ last.status = "return"
           /\ last.errors = {}
           /\ image.data = last.before

C11_Witness ==
    /\ calls = 1 /\ BlurRan(last) /\ Radius(last) = 2 /\ Step(last) = 2
    /\ image.width = 3 /\ image.height = 3
    /\ last.before = Pattern(<<9, 0>>, 36)
    /\ last.written = 0 .. 35 /\ image.data = last.before
    /\ blur_rgba(last.before, 4, 3, 3, BYTE_PER_PIXEL, 2, 1).count > 1

\* the plugin file does not load, or has no process_image
PluginUnusable == main.library \in {"not_a_library", "no_process_image"}

\* C12: when loading the plugin module or resolving process_image fails,
\* the entry point is never invoked, no output image is saved, main returns
\* the typed error PluginError, and neither load nor resolve is tried again.
C12_LoadFailureIsFatal ==
    /\ PluginUnusable
         => /\ calls = 0 /\ last = NoCall /\ image.data = orig
            /\ ~main.saved
            /\ main.pc \in {"load", "resolve", "done"}
            /\ main.loads <= 1 /\ main.resolves <= 1
            /\ (main.library = "not_a_library" => main.resolves = 0)
            /\ (main.pc = "done" => main.result = "PluginError")
    /\ (calls >= 1 \/ main.saved)
         => ~PluginUnusable /\ main.loads = 1 /\ main.resolves = 1

C12_Witness ==
    /\ main.library = "no_process_image" /\ main.pc = "done"
    /\ main.result = "PluginError" /\ main.loads = 1 /\ main.resolves = 1
    /\ calls = 0 /\ ~main.saved

\* the last blur call reached its passes: well-formed, radius and step >= 1
BlurPasses(call) == BlurRan(call) /\ Radius(call) >= 1 /\ Step(call) >= 1

\* blur_rgba on the buffer the last call was given
BlurRgbaOf(p, c) ==
    blur_rgba(last.before, p, image.width, image.height, BYTE_PER_PIXEL,
              Radius(last), c)

\* the channel-c bytes of the pixels of p's row within radius columns of p
RowNeighbours(p, c) ==
    {BYTE_PER_PIXEL * q + c :
        q \in {x \in Pixels :
                 /\ x \div image.width = p \div image.width
                 /\ x - p <= Radius(last) /\ p - x <= Radius(last)}}

\* C13: for every pixel of every row, the last included, and every channel,
\* the horizontal samples in the mean are exactly the channel's bytes of
\* the pixels of the same row within radius columns: none from another
\* row, none of them left out.
C13_HorizontalSamplesOfOwnRow ==
    (calls >= 1 /\ BlurPasses(last)
     /\ Fits(image.width, image.height, Radius(last)))
        => \A p \in Pixels : \A c \in Channels :
             BlurRgbaOf(p, c).columns = RowNeighbours(p, c)

\* the divergence: a pixel of the last row gets no horizontal sample
C13_Witness ==
    /\ calls = 1 /\ BlurPasses(last) /\ Radius(last) = 1
    /\ image.width = 2 /\ image.height = 2
    /\ last.before = Pattern(<<0, 1>>, 16)
    /\ BlurRgbaOf(0, 0).columns = {0, 4}
    /\ BlurRgbaOf(2, 0).tag = "Ok"
    /\ BlurRgbaOf(2, 0).columns = {}
    /\ RowNeighbours(2, 0) = {8, 12}

\* C14: every vertical sample for channel c of pixel p is the byte at
\* (4*p + c) + k * (width*4) with |k| <= radius, inside the buffer: a
\* channel-c byte of p's column, and no byte of another channel is used.
C14_VerticalSamplesOfOwnColumn ==
    (calls >= 1 /\ BlurPasses(last)
     /\ Fits(image.width, image.height, Radius(last)))
        => \A p \in Pixels : \A c \in Channels :
             LET res == BlurRgbaOf(p, c) IN
             /\ \A s \in res.rows :
                  /\ s[1] \in -Radius(last) .. Radius(last)
                  /\ s[2] = (BYTE_PER_PIXEL * p + c)
                              + s[1] * (image.width * BYTE_PER_PIXEL)
                  /\ s[2] \in DOMAIN last.before
             /\ \A k \in res.reads : k % BYTE_PER_PIXEL = c

\* the divergence: the row sample of channel 1 is taken one byte further
C14_Witness ==
    /\ calls = 1 /\ BlurPasses(last) /\ Radius(last) = 1
    /\ image.width = 2 /\ image.height = 2
    /\ last.before = Pattern(<<0, 1>>, 16)
    /\ BlurRgbaOf(0, 0).rows = {<<0, 0>>, <<1, 8>>}
    /\ BlurRgbaOf(0, 1).rows = {<<0, 2>>, <<1, 10>>}

\* the exact value of channel + index + i * len_width_in_byte at the loop's
\* last iteration, i = radius, leaves the i32 range
RowOffsetExceeds(p, c) ==
    c + (c + BYTE_PER_PIXEL * p) + Radius(last) * (image.width * BYTE_PER_PIXEL)
        > I32_MAX

\* C15: every multiplication and addition that computes a byte offset is
\* overflow-checked: an offset outside its integer type's range gives an
\* error outcome (blur: Err from blur_rgba; mirror: logged error and
\* return), never a wrapped value and never a panic.
C15_OffsetArithmeticChecked ==
    /\ (calls >= 1 /\ WellFormed(last)) => last.status = "return"
    /\ (calls >= 1 /\ BlurPasses(last))
         => \A p \in Pixels : \A c \in Channels :
              /\ BlurRgbaOf(p, c).tag # "panic"
              /\ RowOffsetExceeds(p, c) => BlurRgbaOf(p, c).tag = "Err"

\* the divergence: without overflow checks the offset wraps and blur_rgba
\* returns Ok
C15_Witness ==
    /\ calls = 1 /\ BlurPasses(last) /\ ~overflow_checks
    /\ image.width = 1 /\ image.height = 1
    /\ Radius(last) = OverflowRadius - 1
    /\ RowOffsetExceeds(0, 2)
    /\ BlurRgbaOf(0, 2).tag = "Ok"
    /\ last.status = "return" /\ 2 \in last.written

\* the run so far is two well-formed blur calls with configurations p and q
TwoBlurCalls(p, q) ==
    /\ calls = 2
    /\ trail[1].plugin = "blur" /\ trail[1].good /\ trail[1].params = p
    /\ trail[2].plugin = "blur" /\ trail[2].good /\ trail[2].params = q

\* what one well-formed blur call with configuration p makes of data
BlurOf(p, data) ==
    blur_process_image(image.width, image.height, "valid", p, "Ok", data,
                       LevelDebug).data

\* the buffer at the moment byte j of a pass is computed, if the pass goes
\* from before to after in increasing index order and in place
AtByte(before, after, j) ==
    [k \in DOMAIN before |-> IF k < j THEN after[k] ELSE before[k]]

\* after is what one in-place pass in increasing index order makes of before
OnePassInPlace(before, after, radius) ==
    \A j \in DOMAIN before :
        LET res == blur_rgba(AtByte(before, after, j), j \div BYTE_PER_PIXEL,
                             image.width, image.height, BYTE_PER_PIXEL, radius,
                             j % BYTE_PER_PIXEL)
        IN IF res.tag = "Ok" THEN res.index = j /\ after[j] = res.value
           ELSE after[j] = before[j]

OneStep(r) == BlurDoc(JInt(r), JInt(1), JAbsent)

\* C16: the blur's process_image makes exactly step passes; a pass computes
\* the bytes in increasing index order, each from the buffer as it then is
\* (bytes below it already of this pass, the others from before it), and
\* writes it at once; a call with step s gives the buffer of s successive
\* calls with step 1 and the same radius.
C16_PassesInPlaceInOrder ==
    /\ (calls >= 1 /\ BlurPasses(last) /\ last.status = "return" /\ Step(last) = 1)
         => OnePassInPlace(last.before, image.data, Radius(last))
    /\ (calls >= 1 /\ BlurPasses(last) /\ last.status = "return" /\ Step(last) = 2)
         => LET mid == BlurOf(OneStep(Radius(last)), last.before)
            IN /\ OnePassInPlace(last.before, mid, Radius(last))
               /\ OnePassInPlace(mid, image.data, Radius(last))
               /\ image.data = BlurOf(OneStep(Radius(last)), mid)
    /\ \A r \in {1, 2} :
         TwoBlurCalls(OneStep(r), OneStep(r))
            => image.data = BlurOf(BlurDoc(JInt(r), JInt(2), JAbsent), orig)

C16_Witness ==
    /\ TwoBlurCalls(OneStep(1), OneStep(1))
    /\ image.width = 2 /\ image.height = 2 /\ orig = Pattern(<<0, 1>>, 16)
    /\ image.data = BlurOf(BlurDoc(JInt(1), JInt(2), JAbsent), orig)
    /\ image.data # last.before /\ last.before # orig
    /\ last.written = 0 .. 15

\* blur_rgba returns an error for some pixel and channel of the last call
SomeBlurError ==
    \E p \in Pixels : \E c \in Channels : BlurRgbaOf(p, c).tag = "Err"

\* the first pixel for which (i + index_pixel) * 4 leaves i32 is inside the
\* image and not its first: the overflow depends on the pixel index
PixelDependentOverflow ==
    /\ Radius(last) * BYTE_PER_PIXEL <= I32_MAX
    /\ Radius(last) * (image.width * BYTE_PER_PIXEL) <= I32_MAX
    /\ \E p \in Pixels : (Radius(last) + p) * BYTE_PER_PIXEL > I32_MAX

\* C17: when blur_rgba returns an error for a pixel and channel, only that
\* byte is left unwritten and the call goes on (it is not aborted); where
\* the overflow depends on the pixel index the call ends with some bytes
\* blurred and the others as they were, none written from a failed
\* computation.
C17_ErrorSkipsOneByte ==
    /\ (calls >= 1 /\ BlurPasses(last) /\ SomeBlurError)
         => /\ last.status = "return"
            /\ last.errors # {}
            /\ \A p \in Pixels : \A c \in Channels :
                 LET j == BYTE_PER_PIXEL * p + c IN
                 IF BlurRgbaOf(p, c).tag = "Err"
                 THEN j \notin last.written /\ image.data[j] = last.before[j]
                 ELSE j \in last.written
    /\ (calls >= 1 /\ BlurPasses(last) /\ PixelDependentOverflow)
         => /\ last.status = "return"
            /\ last.written # {} /\ last.written # DOMAIN last.before

\* the claim's case where it holds: without overflow checks pixel 0 is
\* blurred and pixel 1 is left as it was
C17_Witness ==
    /\ calls = 1 /\ BlurPasses(last) /\ ~overflow_checks
    /\ image.width = 1 /\ image.height = 2
    /\ Radius(last) = OverflowRadius - 1 /\ PixelDependentOverflow
    /\ last.status = "return" /\ last.written = 0 .. 3
    /\ last.errors = {"OverflowError"}
    /\ \A j \in 4 .. 7 : image.data[j] = last.before[j]

\* the bytes a swap <<a, b, n>> exchanges
SwapBytes(s) == (s[1] .. s[1] + s[3] - 1) \cup (s[2] .. s[2] + s[3] - 1)

\* how many swaps each flip of the last call makes, when it runs
VerticalSwaps == IF FlipsVertical(last) THEN image.height \div 2 ELSE 0
HorizontalSwaps ==
    IF FlipsHorizontal(last) THEN image.height * (image.width \div 2) ELSE 0

\* the swaps of one flip: no byte takes part in two of them
DisjointSwaps(K) ==
    \A j \in K : \A k \in K :
        j # k => SwapBytes(last.swaps[j]) \cap SwapBytes(last.swaps[k]) = {}

\* C18: every swap of the vertical flip (two ranges of width*4 bytes) and of
\* the horizontal flip (two ranges of 4 bytes) exchanges two ranges inside
\* [0, width*height*4) that do not overlap, and a byte takes part in at most
\* one swap of a flip.
C18_SwapsInBoundsDisjoint ==
    (calls >= 1 /\ MirrorRan(last))
        => /\ last.status = "return"
           /\ Len(last.swaps) = VerticalSwaps + HorizontalSwaps
           /\ \A k \in DOMAIN last.swaps :
                LET s == last.swaps[k] IN
                /\ s[3] = (IF k <= VerticalSwaps THEN RowBytes ELSE BYTE_PER_PIXEL)
                /\ s[1] >= 0 /\ s[2] >= 0
                /\ s[1] + s[3] <= image.width * image.height * BYTE_PER_PIXEL
                /\ s[2] + s[3] <= image.width * image.height * BYTE_PER_PIXEL
                /\ (s[1] + s[3] <= s[2] \/ s[2] + s[3] <= s[1])
           /\ DisjointSwaps(1 .. VerticalSwaps)
           /\ DisjointSwaps(VerticalSwaps + 1 .. Len(last.swaps))

C18_Witness ==
    /\ calls = 1 /\ MirrorRan(last)
    /\ FlipsVertical(last) /\ FlipsHorizontal(last)
    /\ image.width = 3 /\ image.height = 3
    /\ Len(last.swaps) = 4
    /\ last.swaps[1] = <<0, 24, 12>>
    /\ last.swaps[4] = <<24, 32, 4>>
    /\ last.touched = (0 .. 35) \ (16 .. 19)

====
